---- MODULE Spec2Model ----
(***************************************************************************)
(* Release tooling of better-mcps: scripts/release.py (detect, classify,   *)
(* bump, plan-and-tag, publish), scripts/tag_on_merge.py (reconcile on     *)
(* merge) and scripts/bump_level.py (standalone classifier).               *)
(*                                                                         *)
(* Text values (version strings, commit subjects and bodies, paths, tag    *)
(* names) are sequences of one-character strings, so that parsing,         *)
(* formatting, prefix tests and the regular expressions of the scripts are *)
(* computed character by character.                                        *)
(***************************************************************************)
EXTENDS Integers, Sequences, FiniteSets, TLC

VARIABLES
    \* -- bump_version called on one input (SpecBump)
    bvIn, bvLevel, bvPc, bvOut,
    \* -- one classifier scan over a commit range (SpecClassify)
    clCommits, clTool, clIdx, clBump, clResult,
    \* -- the repository and the passes run on it (Spec)
    history,      \* the commits of the local branch, oldest first
    remoteHead,   \* how many of them origin/main holds
    tags,         \* the local tags, in creation order: [name, target, by]
    remoteTags,   \* the names of the tags pushed to origin
    files,        \* the version files of each package in the working tree
    staged,       \* the paths staged in the index
    releases,     \* the hosted release records in creation order, each a tag name
    pass,         \* the pass that runs or ran last
    pc,           \* its position
    idx,          \* its loop index
    planned,      \* cmd_tag_main's planned list
    recPkgs,      \* tag_on_merge's sorted(pkgs)
    result,       \* how the last finished pass ended
    did,          \* what the pass has done so far (history variable)
    snap,         \* the working tree when the pass started (history variable)
    prev,         \* the last finished reconcile pass (history variable)
    nRuns, nDev,  \* passes started, commits made by developers
    chPkg,        \* package_changed: the package
    chRef,        \* its since_tag argument
    chPc,         \* "call" before the call, "returned" after it
    chOut,        \* the returned boolean
    wrKind,       \* which writer is called: "pyproject" or "init"
    wrFile,       \* the lines of the file that match the writer's pattern
    wrOld,        \* those lines before the call (history variable)
    wrNew,        \* the version to write
    wrPc,         \* "call" before the call, "returned" after it
    wrErr         \* the exception the writer raised, or "none"

bumpVars == <<bvIn, bvLevel, bvPc, bvOut>>
classifyVars == <<clCommits, clTool, clIdx, clBump, clResult>>
repoVars == <<history, remoteHead, tags, remoteTags, files, staged, releases>>
passVars == <<pass, pc, idx, planned, recPkgs, result, did, snap, prev, nRuns, nDev>>

changedVars == <<chPkg, chRef, chPc, chOut>>
writeVars == <<wrKind, wrFile, wrOld, wrNew, wrPc, wrErr>>

vars == <<bumpVars, classifyVars, repoVars, passVars, changedVars, writeVars>>

----------------------------------------------------------------------------
(* Bounds of the model *)

\* longest decimal numeral of a version component in the inputs of bump_version
MaxDigits == 2

\* commits of the history package_changed is asked about
MaxHist == 2

\* matching lines of a file handed to a version writer
MaxLines == 2

\* longest commit range handed to a classifier scan
MaxRange == 3

\* passes started on the repository
MaxRuns == 2

\* commits developers add to the branch
MaxDevCommits == 1

----------------------------------------------------------------------------
(* Text helpers *)

DigitChars == <<"0", "1", "2", "3", "4", "5", "6", "7", "8", "9">>

Digits == {DigitChars[i] : i \in 1..10}

\* [a-zA-Z]
Letters == {"a", "b", "c", "d", "e", "f", "g", "h", "i", "j", "k", "l", "m",
            "n", "o", "p", "q", "r", "s", "t", "u", "v", "w", "x", "y", "z",
            "A", "B", "C", "D", "E", "F", "G", "H", "I", "J", "K", "L", "M",
            "N", "O", "P", "Q", "R", "S", "T", "U", "V", "W", "X", "Y", "Z"}

DigitVal(c) == (CHOOSE i \in 1..10 : DigitChars[i] = c) - 1

\* str.startswith
StartsWith(s, prefix) ==
    /\ Len(prefix) <= Len(s)
    /\ \A i \in 1..Len(prefix) : s[i] = prefix[i]

\* `needle in s` on strings
Contains(s, needle) ==
    \E k \in 0..(Len(s) - Len(needle)) :
        \A i \in 1..Len(needle) : s[k + i] = needle[i]

IsDigits(s) == Len(s) > 0 /\ \A i \in 1..Len(s) : s[i] \in Digits

\* int(text) of a run of decimal digits
RECURSIVE StrToInt(_)
StrToInt(s) ==
    IF Len(s) = 0 THEN 0
    ELSE 10 * StrToInt(SubSeq(s, 1, Len(s) - 1)) + DigitVal(s[Len(s)])

\* f"{n}" of a non-negative integer
RECURSIVE IntToStr(_)
IntToStr(n) ==
    IF n < 10 THEN <<DigitChars[n + 1]>>
    ELSE IntToStr(n \div 10) \o <<DigitChars[(n % 10) + 1]>>

Range(seq) == {seq[i] : i \in 1..Len(seq)}

Ok(v) == [ok |-> TRUE, val |-> v]
Err(e) == [ok |-> FALSE, err |-> e]

\* SemverBump
BumpLevels == {"major", "minor", "patch", "none"}

----------------------------------------------------------------------------
(* The variables of a specification that another specification leaves alone *)

NoValue == [ok |-> FALSE, err |-> "not returned"]

BumpIdle ==
    /\ bvIn = <<>> /\ bvLevel = "none" /\ bvPc = "off" /\ bvOut = NoValue

ClassifyIdle ==
    /\ clCommits = <<>> /\ clTool = "off" /\ clIdx = 0 /\ clBump = "none"
    /\ clResult = "off"

ChangedIdle ==
    /\ chPkg = <<>> /\ chRef = <<>> /\ chPc = "off" /\ chOut = FALSE

WriteIdle ==
    /\ wrKind = "off" /\ wrFile = <<>> /\ wrOld = <<>> /\ wrNew = <<>>
    /\ wrPc = "off" /\ wrErr = "none"

RepoIdle ==
    /\ history = <<>> /\ remoteHead = 0 /\ tags = <<>> /\ remoteTags = {}
    /\ files = <<>> /\ staged = {} /\ releases = <<>>
    /\ pass = "off" /\ pc = "off" /\ idx = 0 /\ planned = <<>> /\ recPkgs = <<>>
    /\ result = "off" /\ did = <<>> /\ snap = <<>> /\ prev = <<>>
    /\ nRuns = 0 /\ nDev = 0

----------------------------------------------------------------------------
(* Version arithmetic: release.py parse_semver, bump_version *)

\* SEMVER_RE without the end anchor's tolerance of a final newline
SemverBody(v) ==
    \E i \in 1..Len(v) : \E j \in (i + 1)..Len(v) :
        /\ v[i] = "." /\ v[j] = "."
        /\ IsDigits(SubSeq(v, 1, i - 1))
        /\ IsDigits(SubSeq(v, i + 1, j - 1))
        /\ IsDigits(SubSeq(v, j + 1, Len(v)))

\* what SEMVER_RE matches in v: "$" also matches before one final newline
SemverCore(v) ==
    IF Len(v) > 0 /\ v[Len(v)] = "\n" THEN SubSeq(v, 1, Len(v) - 1) ELSE v

SEMVER_RE(v) == SemverBody(SemverCore(v))

ParseSemver(v) ==
    IF ~SEMVER_RE(v) THEN Err("ValueError: Invalid semver")
    ELSE LET c == SemverCore(v)
             i == CHOOSE k \in 1..Len(c) : c[k] = "." /\ IsDigits(SubSeq(c, 1, k - 1))
             j == CHOOSE k \in (i + 1)..Len(c) : c[k] = "."
         IN Ok(<<StrToInt(SubSeq(c, 1, i - 1)),
                 StrToInt(SubSeq(c, i + 1, j - 1)),
                 StrToInt(SubSeq(c, j + 1, Len(c)))>>)

FormatVersion(t) ==
    IntToStr(t[1]) \o <<".">> \o IntToStr(t[2]) \o <<".">> \o IntToStr(t[3])

\* a bump that carries the lower components over instead of zeroing them
BumpVersionKeepsLower(v, bump) ==
    LET p == ParseSemver(v) IN
    IF ~p.ok THEN p
    ELSE IF bump = "none" THEN Ok(v)
    ELSE IF bump = "major" THEN Ok(FormatVersion(<<p.val[1] + 1, p.val[2], p.val[3]>>))
    ELSE IF bump = "minor" THEN Ok(FormatVersion(<<p.val[1], p.val[2] + 1, p.val[3]>>))
    ELSE IF bump = "patch" THEN Ok(FormatVersion(<<p.val[1], p.val[2], p.val[3] + 1>>))
    ELSE Err("ValueError: bump")

BumpVersion(v, bump) ==
    LET p == ParseSemver(v) IN
    IF ~p.ok THEN p
    ELSE IF bump = "none" THEN Ok(v)
    ELSE IF bump = "major" THEN Ok(FormatVersion(<<p.val[1] + 1, 0, 0>>))
    ELSE IF bump = "minor" THEN Ok(FormatVersion(<<p.val[1], p.val[2] + 1, 0>>))
    ELSE IF bump = "patch" THEN Ok(FormatVersion(<<p.val[1], p.val[2], p.val[3] + 1>>))
    ELSE Err("ValueError: bump")

----------------------------------------------------------------------------
(* Packages and paths *)

\* Package.name of the two package directories of the model
PkgA == <<"f", "s">>
PkgB == <<"f", "s", "-", "v", "2">>

\* list_packages(): the package directories, sorted by name
ListPackages == <<PkgA, PkgB>>

PkgNames == {ListPackages[i] : i \in 1..Len(ListPackages)}

\* f"{pkg.name}/"
DirPrefix(name) == name \o <<"/">>

\* a path below a package directory; a file or directory name is one element
PathIn(name, rest) == DirPrefix(name) \o rest

README == <<"README.md">>

----------------------------------------------------------------------------
(* Commit classification: release.py conventional_bump_from_commits and
   bump_level.py main *)

BREAKING_CHANGE == <<"B", "R", "E", "A", "K", "I", "N", "G", " ", "C", "H", "A", "N", "G", "E">>

\* re.match(r"^[a-zA-Z]+\(.+\)!:|^[a-zA-Z]+!:", subject)
BreakingSubject(s) ==
    \E n \in 1..Len(s) :
        /\ \A i \in 1..n : s[i] \in Letters
        /\ \/ /\ Len(s) >= n + 2
              /\ s[n + 1] = "!" /\ s[n + 2] = ":"
           \/ /\ Len(s) >= n + 1
              /\ s[n + 1] = "("
              /\ \E k \in (n + 3)..(Len(s) - 2) :
                    /\ s[k] = ")" /\ s[k + 1] = "!" /\ s[k + 2] = ":"
                    /\ \A i \in (n + 2)..(k - 1) : s[i] # "\n"

\* any(p.startswith(f"{pkg.name}/") for p in touched if p)
TouchedPackage(c, name) ==
    \E p \in c.touched : p # <<>> /\ StartsWith(p, DirPrefix(name))

IsBreaking(c) == Contains(c.body, BREAKING_CHANGE) \/ BreakingSubject(c.subject)

FEAT == <<"f", "e", "a", "t">>
FIX == <<"f", "i", "x">>
PERF == <<"p", "e", "r", "f">>

\* a scan in which a later fix overwrites the running bump
ReleaseScanStepFixOverwrites(bump, c, name) ==
    IF ~TouchedPackage(c, name) THEN [bump |-> bump, ret |-> FALSE]
    ELSE IF IsBreaking(c) THEN [bump |-> "major", ret |-> TRUE]
    ELSE IF StartsWith(c.subject, FEAT) THEN [bump |-> "minor", ret |-> FALSE]
    ELSE IF StartsWith(c.subject, FIX) THEN [bump |-> "patch", ret |-> FALSE]
    ELSE [bump |-> bump, ret |-> FALSE]

\* a scan that goes on after a breaking commit instead of returning
ReleaseScanStepNoReturn(bump, c, name) ==
    IF ~TouchedPackage(c, name) THEN [bump |-> bump, ret |-> FALSE]
    ELSE IF IsBreaking(c) THEN [bump |-> "major", ret |-> FALSE]
    ELSE IF StartsWith(c.subject, FEAT) THEN [bump |-> "minor", ret |-> FALSE]
    ELSE IF StartsWith(c.subject, FIX)
         THEN [bump |-> IF bump = "none" THEN "patch" ELSE bump, ret |-> FALSE]
    ELSE [bump |-> bump, ret |-> FALSE]

\* a scan that reads every commit of the range, whatever paths it touched
ReleaseScanStepAnyPath(bump, c, name) ==
    IF IsBreaking(c) THEN [bump |-> "major", ret |-> TRUE]
    ELSE IF StartsWith(c.subject, FEAT)
         THEN [bump |-> IF bump \in {"none", "patch", "minor"} THEN "minor" ELSE bump,
               ret |-> FALSE]
    ELSE IF StartsWith(c.subject, FIX)
         THEN [bump |-> IF bump = "none" THEN "patch" ELSE bump, ret |-> FALSE]
    ELSE [bump |-> bump, ret |-> FALSE]

\* one iteration of the loop of conventional_bump_from_commits: the running
\* bump after the commit, and whether the function returns at this commit
ReleaseScanStep(bump, c, name) ==
    IF ~TouchedPackage(c, name) THEN [bump |-> bump, ret |-> FALSE]
    ELSE IF IsBreaking(c) THEN [bump |-> "major", ret |-> TRUE]
    ELSE IF StartsWith(c.subject, FEAT)
         THEN [bump |-> IF bump \in {"none", "patch", "minor"} THEN "minor" ELSE bump,
               ret |-> FALSE]
    ELSE IF StartsWith(c.subject, FIX)
         THEN [bump |-> IF bump = "none" THEN "patch" ELSE bump, ret |-> FALSE]
    ELSE [bump |-> bump, ret |-> FALSE]

\* one iteration of the loop of bump_level.py main
BumpLevelScanStep(bump, c, name) ==
    IF ~TouchedPackage(c, name) THEN [bump |-> bump, ret |-> FALSE]
    ELSE IF IsBreaking(c) THEN [bump |-> "major", ret |-> TRUE]
    ELSE IF StartsWith(c.subject, FEAT) THEN [bump |-> "minor", ret |-> FALSE]
    ELSE IF StartsWith(c.subject, FIX) \/ StartsWith(c.subject, PERF)
         THEN [bump |-> IF bump = "none" THEN "patch" ELSE bump, ret |-> FALSE]
    ELSE [bump |-> bump, ret |-> FALSE]

\* the loop of conventional_bump_from_commits from the i-th commit of the
\* rev-list on, with the running bump
RECURSIVE ReleaseScanFrom(_, _, _, _)
ReleaseScanFrom(commits, i, bump, name) ==
    IF i > Len(commits) THEN bump
    ELSE LET r == ReleaseScanStep(bump, commits[i], name) IN
         IF r.ret THEN r.bump ELSE ReleaseScanFrom(commits, i + 1, r.bump, name)

\* the loop of bump_level.py main from the i-th commit of the rev-list on
RECURSIVE BumpLevelScanFrom(_, _, _, _)
BumpLevelScanFrom(commits, i, bump, name) ==
    IF i > Len(commits) THEN bump
    ELSE LET r == BumpLevelScanStep(bump, commits[i], name) IN
         IF r.ret THEN r.bump ELSE BumpLevelScanFrom(commits, i + 1, r.bump, name)

\* conventional_bump_from_commits over the rev-list (newest commit first)
ConventionalBumpFromCommits(commits, name) == ReleaseScanFrom(commits, 1, "none", name)

----------------------------------------------------------------------------
(* SpecClassify: one scan of a commit range for package PkgA, by release.py
   or by bump_level.py, one commit per step *)

Msg(subject, body) == [subject |-> subject, body |-> body]

ScanMsgs ==
    { Msg(<<"f", "e", "a", "t", ":", " ", "x">>, <<>>),
      Msg(<<"f", "i", "x", ":", " ", "y">>, <<>>),
      Msg(<<"p", "e", "r", "f", ":", " ", "z">>, <<>>),
      Msg(<<"d", "o", "c", "s", ":", " ", "q">>, <<>>),
      Msg(<<"f", "e", "a", "t", "!", ":", " ", "z">>, <<>>),
      Msg(<<"f", "i", "x", "(", "a", ")", "!", ":", " ", "z">>, <<>>),
      Msg(<<"d", "o", "c", "s", ":", " ", "q">>, BREAKING_CHANGE \o <<":", " ", "x">>),
      Msg(<<"c", "h", "o", "r", "e", "(", ")", "!", ":", " ", "w">>, <<>>) }

\* the messages of ScanMsgs that carry a breaking-change marker, told by hand
ScanBreakingMsgs ==
    { Msg(<<"f", "e", "a", "t", "!", ":", " ", "z">>, <<>>),
      Msg(<<"f", "i", "x", "(", "a", ")", "!", ":", " ", "z">>, <<>>),
      Msg(<<"d", "o", "c", "s", ":", " ", "q">>, BREAKING_CHANGE \o <<":", " ", "x">>) }

\* the subjects of ScanMsgs that start with feat, told by hand
ScanFeatSubjects == { <<"f", "e", "a", "t", ":", " ", "x">>, <<"f", "e", "a", "t", "!", ":", " ", "z">> }

ScanTouched ==
    { {README, PathIn(PkgA, <<"a.py">>)},
      {README, PathIn(PkgB, <<"a.py">>)} }

\* the touched-path sets of ScanTouched with a path under PkgA/, told by hand
ScanTouchedA == { {README, PathIn(PkgA, <<"a.py">>)} }

ScanCommits ==
    {[subject |-> m.subject, body |-> m.body, touched |-> t] :
        m \in ScanMsgs, t \in ScanTouched}

InitClassify ==
    /\ clCommits \in UNION {[1..n -> ScanCommits] : n \in 0..MaxRange}
    /\ clTool \in {"release", "bump_level"}
    /\ clIdx = 1
    /\ clBump = "none"
    /\ clResult = "running"
    /\ BumpIdle
    /\ RepoIdle
    /\ ChangedIdle /\ WriteIdle

\* release.py:122-143, one commit of the rev-list
ReleaseScanCommit ==
    /\ clTool = "release" /\ clResult = "running" /\ clIdx <= Len(clCommits)
    /\ LET r == ReleaseScanStep(clBump, clCommits[clIdx], PkgA) IN
        /\ clBump' = r.bump
        /\ clResult' = IF r.ret THEN r.bump ELSE "running"
    /\ clIdx' = clIdx + 1
    /\ UNCHANGED <<clCommits, clTool>>
    /\ UNCHANGED <<bumpVars, repoVars, passVars, changedVars, writeVars>>

\* release.py:145, return bump
ReleaseScanReturn ==
    /\ clTool = "release" /\ clResult = "running" /\ clIdx > Len(clCommits)
    /\ clResult' = clBump
    /\ UNCHANGED <<clCommits, clTool, clIdx, clBump>>
    /\ UNCHANGED <<bumpVars, repoVars, passVars, changedVars, writeVars>>

\* bump_level.py:71-87, one commit of the rev-list
BumpLevelScanCommit ==
    /\ clTool = "bump_level" /\ clResult = "running" /\ clIdx <= Len(clCommits)
    /\ LET r == BumpLevelScanStep(clBump, clCommits[clIdx], PkgA) IN
        /\ clBump' = r.bump
        /\ clResult' = IF r.ret THEN r.bump ELSE "running"
    /\ clIdx' = clIdx + 1
    /\ UNCHANGED <<clCommits, clTool>>
    /\ UNCHANGED <<bumpVars, repoVars, passVars, changedVars, writeVars>>

\* bump_level.py:89, print(bump)
BumpLevelScanReturn ==
    /\ clTool = "bump_level" /\ clResult = "running" /\ clIdx > Len(clCommits)
    /\ clResult' = clBump
    /\ UNCHANGED <<clCommits, clTool, clIdx, clBump>>
    /\ UNCHANGED <<bumpVars, repoVars, passVars, changedVars, writeVars>>

NextClassify ==
    \/ ReleaseScanCommit
    \/ ReleaseScanReturn
    \/ BumpLevelScanCommit
    \/ BumpLevelScanReturn

SpecClassify == InitClassify /\ [][NextClassify]_vars

\* none < patch < minor < major
BumpRank(b) == CASE b = "none" -> 0 [] b = "patch" -> 1 [] b = "minor" -> 2
                 [] b = "major" -> 3

ScanDone == clResult \in BumpLevels

RangeHasBreaking ==
    \E i \in 1..Len(clCommits) :
        /\ clCommits[i].touched \in ScanTouchedA
        /\ Msg(clCommits[i].subject, clCommits[i].body) \in ScanBreakingMsgs

RangeHasFeat ==
    \E i \in 1..Len(clCommits) :
        /\ clCommits[i].touched \in ScanTouchedA
        /\ clCommits[i].subject \in ScanFeatSubjects

\* C2: when a commit of the range that touches the package carries a
\* breaking-change marker, the scan (release.py and bump_level.py alike)
\* returns major, whatever the other commits of the range are and wherever
\* the breaking commit stands.
C2_BreakingIsMajor ==
    (ScanDone /\ RangeHasBreaking) => clResult = "major"

\* a breaking commit after a feat and a fix commit, all touching the package
C2_Witness ==
    /\ ScanDone /\ clResult = "major"
    /\ Len(clCommits) = 3
    /\ clCommits[1].subject = <<"f", "i", "x", ":", " ", "y">> /\ clCommits[1].touched \in ScanTouchedA
    /\ clCommits[2].subject = <<"f", "e", "a", "t", ":", " ", "x">> /\ clCommits[2].touched \in ScanTouchedA
    /\ clCommits[3].subject = <<"f", "i", "x", "(", "a", ")", "!", ":", " ", "z">> /\ clCommits[3].touched \in ScanTouchedA

\* C3 (result): with no breaking marker on a commit touching the package and
\* at least one such commit whose subject starts with feat, the scan returns
\* minor, for every order and any number of fix commits around it.
C3_FeatIsMinor ==
    (ScanDone /\ ~RangeHasBreaking /\ RangeHasFeat) => clResult = "minor"

\* C3 (scan): the running bump never decreases from one commit to the next.
C3_RunningBumpMonotone ==
    [][BumpRank(clBump') >= BumpRank(clBump)]_vars

\* C3: a range with no breaking marker and a feat commit touching the package
\* is classified minor in every order of its commits, and during the scan the
\* running bump never decreases (a later fix does not turn minor into patch).
C3_FeatPrecedence == []C3_FeatIsMinor /\ C3_RunningBumpMonotone

\* fix, feat, fix in one range: the feat is both followed and preceded by a fix
C3_Witness ==
    /\ ScanDone /\ clResult = "minor"
    /\ Len(clCommits) = 3
    /\ \A i \in 1..3 : clCommits[i].touched \in ScanTouchedA
    /\ clCommits[1].subject = <<"f", "i", "x", ":", " ", "y">>
    /\ clCommits[2].subject = <<"f", "e", "a", "t", ":", " ", "x">>
    /\ clCommits[3].subject = <<"f", "i", "x", ":", " ", "y">>

----------------------------------------------------------------------------
(* SpecBump: bump_version applied to one input *)

ComponentAlphabet == {"0", "1", "9"}

ComponentStrs == UNION {[1..n -> ComponentAlphabet] : n \in 1..MaxDigits}

ValidVersions ==
    {a \o <<".">> \o b \o <<".">> \o c : a \in ComponentStrs, b \in ComponentStrs,
                                          c \in ComponentStrs}

InvalidVersions ==
    { <<>>, <<"1", ".", "2">>, <<"1", ".", "2", ".">>, <<"1", ".", ".", "3">>,
      <<"v", "1", ".", "2", ".", "3">>, <<"1", ".", "2", ".", "3", ".", "4">>,
      <<"1", ".", "2", ".", "x">>, <<"1", ".", "2", ".", "3", " ">> }

VersionInputs ==
    ValidVersions \cup {v \o <<"\n">> : v \in {<<"1", ".", "2", ".", "3">>,
                                                <<"0", ".", "9", ".", "9">>}}
                  \cup InvalidVersions

BumpInputs == BumpLevels \cup {"bogus"}

InitBump ==
    /\ bvIn \in VersionInputs
    /\ bvLevel \in BumpInputs
    /\ bvPc = "call"
    /\ bvOut = NoValue
    /\ ClassifyIdle
    /\ RepoIdle
    /\ ChangedIdle /\ WriteIdle

CallBumpVersion ==
    /\ bvPc = "call"
    /\ bvOut' = BumpVersion(bvIn, bvLevel)
    /\ bvPc' = "returned"
    /\ UNCHANGED <<bvIn, bvLevel>>
    /\ UNCHANGED <<classifyVars, repoVars, passVars, changedVars, writeVars>>

NextBump == CallBumpVersion

SpecBump == InitBump /\ [][NextBump]_vars

\* C1: for every valid "X.Y.Z" and bump level, bump_version returns X+1.0.0 for
\* major, X.Y+1.0 for minor, X.Y.Z+1 for patch (the bumped component plus one,
\* the components below it zero, those above it unchanged), and the input
\* string itself for none.
C1_BumpVersion ==
    (bvPc = "returned" /\ bvIn \in ValidVersions /\ bvLevel \in BumpLevels) =>
        LET i == CHOOSE k \in 1..Len(bvIn) : bvIn[k] = "."
            j == CHOOSE k \in (i + 1)..Len(bvIn) : bvIn[k] = "."
            X == StrToInt(SubSeq(bvIn, 1, i - 1))
            Y == StrToInt(SubSeq(bvIn, i + 1, j - 1))
            Z == StrToInt(SubSeq(bvIn, j + 1, Len(bvIn)))
        IN /\ bvOut.ok
           /\ bvLevel = "none" => bvOut.val = bvIn
           /\ bvLevel = "major" => ParseSemver(bvOut.val) = Ok(<<X + 1, 0, 0>>)
           /\ bvLevel = "minor" => ParseSemver(bvOut.val) = Ok(<<X, Y + 1, 0>>)
           /\ bvLevel = "patch" => ParseSemver(bvOut.val) = Ok(<<X, Y, Z + 1>>)

\* a minor bump of a version with a non-zero patch component and a carry
C1_Witness ==
    /\ bvPc = "returned"
    /\ bvIn = <<"1", ".", "9", ".", "9">>
    /\ bvLevel = "minor"
    /\ bvOut = Ok(<<"1", ".", "1", "0", ".", "0">>)

----------------------------------------------------------------------------
(* The repository: tags, history, and the version files of the working tree *)

\* "better-mcps-"
SCHEME == <<"b", "e", "t", "t", "e", "r", "-", "m", "c", "p", "s", "-">>

\* Package.tag_prefix: f"better-mcps-{self.name}-v"
TagPrefix(name) == SCHEME \o name \o <<"-", "v">>

\* f"{pkg.tag_prefix}{next_v}" and f"better-mcps-{pkg}-v{version}"
TagName(name, v) == TagPrefix(name) \o v

\* <pkg>/pyproject.toml
PyprojectPath(name) == PathIn(name, <<"pyproject.toml">>)

\* <pkg>/src/<import_pkg>/__init__.py
InitPath(name) == PathIn(name, <<"src", "/", "pkg", "/", "__init__.py">>)

\* None, where a tag name is expected
NoTag == <<>>

TagNames == {tags[i].name : i \in 1..Len(tags)}

\* the commit a tag name resolves to
TagTarget(name) == tags[CHOOSE i \in 1..Len(tags) : tags[i].name = name].target

HEAD == Len(history)

\* latest_tag_for: git tag --list "<prefix>*" --sort=-creatordate, first line;
\* None when the list is empty. Tags are kept in creation order, so the most
\* recent one is the last that matches; the local queries (tag --list,
\* rev-parse, diff, rev-list, show) are taken to succeed.
LatestTagFor(name) ==
    LET m == {i \in 1..Len(tags) : StartsWith(tags[i].name, TagPrefix(name))} IN
    IF m = {} THEN NoTag
    ELSE tags[CHOOSE i \in m : \A j \in m : j <= i].name

\* git diff --name-only a..b: the paths the commits after a, up to b, touched
DiffNames(a, b) == UNION {history[k].touched : k \in (a + 1)..b}

\* git ls-files
TrackedFiles == DiffNames(0, HEAD)

\* changed_files_since
ChangedFilesSince(tag) ==
    IF tag = NoTag THEN TrackedFiles ELSE DiffNames(TagTarget(tag), HEAD)

\* a package_changed that compares with the package name, without the slash
PackageChangedNoSlash(name, tag) ==
    \E f \in ChangedFilesSince(tag) : StartsWith(f, name)

\* package_changed
PackageChanged(name, tag) ==
    \E f \in ChangedFilesSince(tag) : StartsWith(f, DirPrefix(name))

\* git rev-list HEAD, or git rev-list <tag>..HEAD: newest commit first
RevList(tag) ==
    LET from == IF tag = NoTag THEN 0 ELSE TagTarget(tag) IN
    [k \in 1..(HEAD - from) |-> history[HEAD + 1 - k]]

\* read_pyproject_version, read_project_version, read_init_version on the
\* lines of the file that match the assignment pattern: the first match
ReadVersion(lines) ==
    IF Len(lines) = 0 THEN Err("ValueError: Could not find version")
    ELSE Ok(lines[1])

\* a writer that keeps whatever re.subn returns, without the n != 1 check
WriteVersionUnchecked(lines, v) == Ok([i \in 1..Len(lines) |-> v])

\* write_pyproject_version, write_init_version: re.subn and the n != 1 check
WriteVersion(lines, v) ==
    IF Len(lines) # 1 THEN Err("ValueError: Expected to replace exactly 1")
    ELSE Ok(<<v>>)

\* a reconcile pass that takes no tag to exist
TagExistsNever(name) == FALSE

\* tag_exists: git rev-parse <tag> succeeds
TagExists(name) == name \in TagNames

\* git tag -f: an existing name is no obstacle
GitTagForced(name) == TRUE

\* whether git tag -a <name> can create the tag: git refuses an existing name
GitTagCreates(name) == name \notin TagNames

\* the subject of the release commit: f"chore(release): {msg_parts}"
ReleaseSubject(plan) ==
    LET part(e) == e.pkg \o <<" ", "v">> \o e.next_v
        RECURSIVE join(_)
        join(k) == IF k = 1 THEN part(plan[1])
                   ELSE join(k - 1) \o <<",", " ">> \o part(plan[k])
    IN <<"c", "h", "o", "r", "e", "(", "r", "e", "l", "e", "a", "s", "e", ")", ":", " ">> \o join(Len(plan))

----------------------------------------------------------------------------
(* The working trees and tag sets the passes start from *)

V010 == <<"0", ".", "1", ".", "0">>
V011 == <<"0", ".", "1", ".", "1">>
V120 == <<"1", ".", "2", ".", "0">>
V119 == <<"1", ".", "1", ".", "9">>
V1x == <<"1", ".", "x">>

NoInit == [exists |-> FALSE, lines |-> <<>>]
InitFile(lines) == [exists |-> TRUE, lines |-> lines]

PkgFiles(py, init) == [py |-> py, init |-> init]

TreeOf(a, b) == [n \in PkgNames |-> IF n = PkgA THEN a ELSE b]

InitTag(name, v) == [name |-> TagName(name, v), target |-> 1, by |-> "init"]

Fixtures ==
    { \* both packages consistent, never released
      [files |-> TreeOf(PkgFiles(<<V010>>, InitFile(<<V010>>)), PkgFiles(<<V120>>, NoInit)),
       tags |-> <<>>],
      \* both packages released at their current versions
      [files |-> TreeOf(PkgFiles(<<V010>>, InitFile(<<V010>>)), PkgFiles(<<V120>>, NoInit)),
       tags |-> <<InitTag(PkgB, V120), InitTag(PkgA, V010)>>],
      \* the descriptor of PkgA is behind its latest tag (a reverted release)
      [files |-> TreeOf(PkgFiles(<<V010>>, InitFile(<<V010>>)), PkgFiles(<<V120>>, NoInit)),
       tags |-> <<InitTag(PkgA, V011)>>],
      \* __init__.py of PkgA disagrees with its descriptor
      [files |-> TreeOf(PkgFiles(<<V120>>, InitFile(<<V119>>)), PkgFiles(<<V120>>, NoInit)),
       tags |-> <<>>],
      \* the descriptor of PkgB holds a version that is not X.Y.Z
      [files |-> TreeOf(PkgFiles(<<V010>>, InitFile(<<V010>>)), PkgFiles(<<V1x>>, NoInit)),
       tags |-> <<>>],
      \* the descriptor of PkgB holds no version assignment
      [files |-> TreeOf(PkgFiles(<<V010>>, InitFile(<<V010>>)), PkgFiles(<<>>, NoInit)),
       tags |-> <<>>],
      \* the descriptor of PkgA holds two version assignments
      [files |-> TreeOf(PkgFiles(<<V010, V010>>, InitFile(<<V010>>)), PkgFiles(<<V120>>, NoInit)),
       tags |-> <<>>],
      \* __init__.py of PkgA mentions __version__ but no line matches the pattern
      [files |-> TreeOf(PkgFiles(<<V010>>, InitFile(<<>>)), PkgFiles(<<V120>>, NoInit)),
       tags |-> <<>>] }

\* the first commit of the repository: every file of both packages
RootCommit ==
    [subject |-> <<"i", "n", "i", "t">>, body |-> <<>>,
     touched |-> {README} \cup {PyprojectPath(n) : n \in PkgNames}
                          \cup {InitPath(n) : n \in PkgNames}]

\* the commits developers merge into the branch
DevCommits ==
    { [subject |-> <<"f", "e", "a", "t", ":", " ", "x">>, body |-> <<>>, touched |-> {PathIn(PkgA, <<"a.py">>)}],
      [subject |-> <<"d", "o", "c", "s", ":", " ", "q">>, body |-> <<>>, touched |-> {PathIn(PkgB, <<"a.py">>)}],
      \* an edit of both descriptors that leaves the versions alone
      [subject |-> <<"c", "h", "o", "r", "e", ":", " ", "d">>, body |-> <<>>,
       touched |-> {PyprojectPath(n) : n \in PkgNames}] }

NothingDone ==
    [commits |-> 0, commitPaths |-> {}, pushed |-> FALSE, tagsCreated |-> <<>>,
     tagsPushed |-> {}, visited |-> <<>>, planError |-> FALSE, rerun |-> FALSE,
     before |-> 0, after |-> 0, requests |-> <<>>, tagListFailed |-> FALSE]

\* the packages whose tag a plan-and-tag run created on the commit that is still
\* HEAD: the tag carries the version the descriptor holds
ReleasedAtHead ==
    { n \in PkgNames :
        /\ Len(files[n].py) = 1
        /\ \E i \in 1..Len(tags) :
              /\ tags[i].by = "tag_main"
              /\ tags[i].target = HEAD
              /\ tags[i].name = TagName(n, files[n].py[1]) }

\* the tags the last pass, a plan-and-tag run, planned and did not create after it
\* pushed its release commit, while that commit is still HEAD
UntaggedAtHead ==
    IF /\ pass = "tag_main" /\ pc = "done"
       /\ did.commits > 0 /\ did.pushed
       /\ history[HEAD].subject = ReleaseSubject(planned)
    THEN {TagName(planned[i].pkg, planned[i].next_v) : i \in 1..Len(planned)} \ TagNames
    ELSE {}

Snapshot ==
    [files |-> files, staged |-> staged, released |-> ReleasedAtHead,
     untagged |-> UntaggedAtHead]

NoPrev == [before |-> 0, after |-> 0, result |-> "none", files |-> <<>>]

\* the repository before the first pass, on one of the given fixtures
InitOn(fixtures) ==
    /\ \E fx \in fixtures : files = fx.files /\ tags = fx.tags
    /\ history = <<RootCommit>>
    /\ remoteHead = 1
    /\ remoteTags = TagNames
    /\ staged = {}
    /\ releases = <<>>
    /\ pass = "none" /\ pc = "idle" /\ idx = 0
    /\ planned = <<>> /\ recPkgs = <<>>
    /\ result = "none"
    /\ did = NothingDone
    /\ snap = Snapshot
    /\ prev = NoPrev
    /\ nRuns = 0 /\ nDev = 0
    /\ BumpIdle /\ ClassifyIdle /\ ChangedIdle /\ WriteIdle

Init == InitOn(Fixtures)

Idle == pc \in {"idle", "done"}

\* a developer's commit reaches the branch; it is on origin/main as well when
\* the local branch holds nothing unpushed
DevCommit ==
    /\ Idle
    /\ nDev < MaxDevCommits
    /\ \E c \in DevCommits : history' = Append(history, c)
    /\ remoteHead' = IF remoteHead = HEAD THEN HEAD + 1 ELSE remoteHead
    /\ nDev' = nDev + 1
    /\ UNCHANGED <<tags, remoteTags, files, staged, releases>>
    /\ UNCHANGED <<pass, pc, idx, planned, recPkgs, result, did, snap, prev, nRuns>>
    /\ UNCHANGED <<bumpVars, classifyVars, changedVars, writeVars>>

Others == <<bumpVars, classifyVars, changedVars, writeVars>>

\* the pass ends: a raised exception or a return
Finish(r) ==
    /\ pc' = "done"
    /\ result' = r

StartPass(name, first) ==
    /\ Idle
    /\ nRuns < MaxRuns
    /\ nRuns' = nRuns + 1
    /\ pass' = name
    /\ pc' = first
    /\ idx' = 1
    /\ result' = "running"
    /\ snap' = Snapshot

----------------------------------------------------------------------------
(* Plan-and-tag pass: release.py cmd_tag_main *)

\* release.py:232-237
StartTagMain ==
    /\ StartPass("tag_main", "plan")
    /\ planned' = <<>>
    /\ did' = NothingDone
    /\ UNCHANGED <<recPkgs, prev, nDev, repoVars, Others>>

\* a plan that keeps the classifier's none instead of forcing patch
PlanOfUnforced(name) ==
    LET last_tag == LatestTagFor(name)
        bump == ConventionalBumpFromCommits(RevList(last_tag), name)
        current == ReadVersion(files[name].py)
    IN IF ~PackageChanged(name, last_tag) THEN [kind |-> "skip"]
       ELSE IF ~current.ok THEN [kind |-> "error"]
       ELSE LET next_v == BumpVersion(current.val, bump) IN
            IF ~next_v.ok THEN [kind |-> "error"]
            ELSE [kind |-> "plan",
                  entry |-> [pkg |-> name, next_v |-> next_v.val, bump |-> bump]]

\* a plan that takes every package as changed
PlanOfAlways(name) ==
    LET last_tag == LatestTagFor(name)
        classified == ConventionalBumpFromCommits(RevList(last_tag), name)
        bump == IF classified = "none" THEN "patch" ELSE classified
        current == ReadVersion(files[name].py)
    IN IF ~current.ok THEN [kind |-> "error"]
       ELSE LET next_v == BumpVersion(current.val, bump) IN
            IF ~next_v.ok THEN [kind |-> "error"]
            ELSE [kind |-> "plan",
                  entry |-> [pkg |-> name, next_v |-> next_v.val, bump |-> bump]]

\* release.py:240-251, the body of the planning loop for one package, after
\* latest_tag_for returned last_tag
PlanWith(name, last_tag) ==
    LET classified == ConventionalBumpFromCommits(RevList(last_tag), name)
        bump == IF classified = "none" THEN "patch" ELSE classified
        current == ReadVersion(files[name].py)
    IN IF ~PackageChanged(name, last_tag) THEN [kind |-> "skip"]
       ELSE IF ~current.ok THEN [kind |-> "error"]
       ELSE LET next_v == BumpVersion(current.val, bump) IN
            IF ~next_v.ok THEN [kind |-> "error"]
            ELSE [kind |-> "plan",
                  entry |-> [pkg |-> name, next_v |-> next_v.val, bump |-> bump]]

\* release.py:239-251, the body of the planning loop for one package
PlanOf(name) == PlanWith(name, LatestTagFor(name))

\* a planning loop that writes each package's descriptor as soon as it is planned
PlanPackageWrites ==
    /\ pass = "tag_main" /\ pc = "plan" /\ idx <= Len(ListPackages)
    /\ LET name == ListPackages[idx]
           p == PlanOf(name) IN
        /\ IF p.kind = "error"
           THEN /\ Finish("ValueError")
                /\ did' = [did EXCEPT !.planError = TRUE]
                /\ UNCHANGED <<idx, planned, files>>
           ELSE /\ idx' = idx + 1
                /\ planned' = IF p.kind = "plan" THEN Append(planned, p.entry) ELSE planned
                /\ files' = IF p.kind = "plan" /\ Len(files[name].py) = 1
                            THEN [files EXCEPT ![name].py = <<p.entry.next_v>>]
                            ELSE files
                /\ UNCHANGED <<pc, result, did>>
    /\ UNCHANGED <<pass, recPkgs, snap, prev, nRuns, nDev, Others>>
    /\ UNCHANGED <<history, remoteHead, tags, remoteTags, staged, releases>>

\* release.py:238-251, one package of the planning loop
PlanPackage ==
    /\ pass = "tag_main" /\ pc = "plan" /\ idx <= Len(ListPackages)
    /\ LET p == PlanOf(ListPackages[idx]) IN
        /\ IF p.kind = "error"
           THEN /\ Finish("ValueError")
                /\ did' = [did EXCEPT !.planError = TRUE]
                /\ UNCHANGED <<idx, planned>>
           ELSE /\ idx' = idx + 1
                /\ planned' = IF p.kind = "plan" THEN Append(planned, p.entry) ELSE planned
                /\ UNCHANGED <<pc, result, did>>
    /\ UNCHANGED <<pass, recPkgs, snap, prev, nRuns, nDev, repoVars, Others>>

\* release.py:253-255, and the entry of the apply loop
PlanDone ==
    /\ pass = "tag_main" /\ pc = "plan" /\ idx > Len(ListPackages)
    /\ IF planned = <<>>
       THEN Finish("ok") /\ UNCHANGED idx
       ELSE pc' = "apply" /\ idx' = 1 /\ UNCHANGED result
    /\ UNCHANGED <<pass, planned, recPkgs, did, snap, prev, nRuns, nDev, repoVars, Others>>

\* the paths of a package's version files
VersionPaths(name) ==
    {PyprojectPath(name)} \cup (IF files[name].init.exists THEN {InitPath(name)} ELSE {})

\* the release commit: git commit of the index
CommitOf(plan, index) ==
    [subject |-> ReleaseSubject(plan), body |-> <<>>, touched |-> index]

\* an apply loop that commits each package's files on its own
ApplyPackageCommits ==
    /\ pass = "tag_main" /\ pc = "apply" /\ idx <= Len(planned)
    /\ LET e == planned[idx]
           f == files[e.pkg] IN
        /\ Len(f.py) = 1 /\ (f.init.exists => Len(f.init.lines) = 1)
        /\ files' = [files EXCEPT ![e.pkg].py = <<e.next_v>>,
                                  ![e.pkg].init.lines =
                                      IF f.init.exists THEN <<e.next_v>> ELSE @]
        /\ history' = Append(history, CommitOf(<<e>>, staged \cup VersionPaths(e.pkg)))
        /\ did' = [did EXCEPT !.commits = @ + 1,
                              !.commitPaths = staged \cup VersionPaths(e.pkg)]
        /\ staged' = {}
        /\ idx' = idx + 1
    /\ UNCHANGED <<pass, pc, planned, recPkgs, result, snap, prev, nRuns, nDev, Others>>
    /\ UNCHANGED <<remoteHead, tags, remoteTags, releases>>

\* release.py:258-267, one package of the apply loop: the two writes, then the
\* two git add
ApplyPackage ==
    /\ pass = "tag_main" /\ pc = "apply" /\ idx <= Len(planned)
    /\ LET e == planned[idx]
           f == files[e.pkg]
           w1 == WriteVersion(f.py, e.next_v)
           w2 == WriteVersion(f.init.lines, e.next_v)
           files1 == [files EXCEPT ![e.pkg].py = w1.val]
           files2 == IF f.init.exists THEN [files1 EXCEPT ![e.pkg].init.lines = w2.val]
                     ELSE files1
       IN
        IF ~w1.ok
        THEN Finish("ValueError") /\ UNCHANGED <<files, staged, idx>>
        ELSE IF f.init.exists /\ ~w2.ok
        THEN Finish("ValueError") /\ files' = files1 /\ UNCHANGED <<staged, idx>>
        ELSE /\ files' = files2
             /\ \/ \* git add pyproject fails
                   /\ Finish("CalledProcessError") /\ UNCHANGED <<staged, idx>>
                \/ \* git add __init__.py fails
                   /\ f.init.exists
                   /\ staged' = staged \cup {PyprojectPath(e.pkg)}
                   /\ Finish("CalledProcessError") /\ UNCHANGED idx
                \/ /\ staged' = staged \cup VersionPaths(e.pkg)
                   /\ idx' = idx + 1
                   /\ UNCHANGED <<pc, result>>
    /\ UNCHANGED <<pass, planned, recPkgs, did, snap, prev, nRuns, nDev, Others>>
    /\ UNCHANGED <<history, remoteHead, tags, remoteTags, releases>>

\* release.py:270-271, git commit
CommitRelease ==
    /\ pass = "tag_main" /\ pc = "apply" /\ idx > Len(planned)
    /\ \/ /\ history' = Append(history, CommitOf(planned, staged))
          /\ staged' = {}
          /\ did' = [did EXCEPT !.commits = @ + 1, !.commitPaths = staged]
          /\ pc' = "push"
          /\ UNCHANGED result
       \/ /\ Finish("CalledProcessError")
          /\ UNCHANGED <<history, staged, did>>
    /\ UNCHANGED <<pass, idx, planned, recPkgs, snap, prev, nRuns, nDev, Others>>
    /\ UNCHANGED <<remoteHead, tags, remoteTags, files, releases>>

\* a push whose failure does not stop the pass
PushCommitFailureIgnored ==
    /\ pass = "tag_main" /\ pc = "push"
    /\ \/ /\ remoteHead' = HEAD
          /\ did' = [did EXCEPT !.pushed = TRUE]
       \/ UNCHANGED <<remoteHead, did>>
    /\ pc' = "tag" /\ idx' = 1
    /\ UNCHANGED <<pass, planned, recPkgs, result, snap, prev, nRuns, nDev, Others>>
    /\ UNCHANGED <<history, tags, remoteTags, files, staged, releases>>

\* release.py:272, git push origin HEAD:main
PushCommit ==
    /\ pass = "tag_main" /\ pc = "push"
    /\ \/ /\ remoteHead' = HEAD
          /\ did' = [did EXCEPT !.pushed = TRUE]
          /\ pc' = "tag" /\ idx' = 1
          /\ UNCHANGED result
       \/ /\ Finish("CalledProcessError")
          /\ UNCHANGED <<remoteHead, did, idx>>
    /\ UNCHANGED <<pass, planned, recPkgs, snap, prev, nRuns, nDev, Others>>
    /\ UNCHANGED <<history, tags, remoteTags, files, staged, releases>>

\* git tag -a <name> at HEAD, then git push origin <name>, by a pass:
\* the tag command fails, or the tag is made and the push fails, or both succeed
TagAndPush(name, by, onFail, onOk) ==
    IF ~GitTagCreates(name)
    THEN onFail /\ UNCHANGED <<tags, remoteTags, did>>
    ELSE \/ onFail /\ UNCHANGED <<tags, remoteTags, did>>
         \/ /\ tags' = Append(tags, [name |-> name, target |-> HEAD, by |-> by])
            /\ did' = [did EXCEPT !.tagsCreated = Append(@, name)]
            /\ onFail
            /\ UNCHANGED remoteTags
         \/ /\ tags' = Append(tags, [name |-> name, target |-> HEAD, by |-> by])
            /\ remoteTags' = remoteTags \cup {name}
            /\ did' = [did EXCEPT !.tagsCreated = Append(@, name),
                                  !.tagsPushed = @ \cup {name}]
            /\ onOk

\* release.py:275-278, one package of the tag loop
TagPackage ==
    /\ pass = "tag_main" /\ pc = "tag" /\ idx <= Len(planned)
    /\ TagAndPush(TagName(planned[idx].pkg, planned[idx].next_v), "tag_main",
                  Finish("CalledProcessError") /\ UNCHANGED idx,
                  idx' = idx + 1 /\ UNCHANGED <<pc, result>>)
    /\ UNCHANGED <<pass, planned, recPkgs, snap, prev, nRuns, nDev, Others>>
    /\ UNCHANGED <<history, remoteHead, files, staged, releases>>

\* release.py:280, return 0
TagMainReturn ==
    /\ pass = "tag_main" /\ pc = "tag" /\ idx > Len(planned)
    /\ Finish("ok")
    /\ UNCHANGED <<pass, idx, planned, recPkgs, did, snap, prev, nRuns, nDev, repoVars, Others>>

----------------------------------------------------------------------------
(* Reconcile-on-merge pass: tag_on_merge.py main *)

\* re.match(r"^([^/]+)/pyproject\.toml$", line): the package names of the
\* changed descriptors
DescriptorPkgs(changed) ==
    {SubSeq(f, 1, Len(f) - 2) : f \in
        {g \in changed : /\ Len(g) >= 3
                         /\ g[Len(g)] = "pyproject.toml" /\ g[Len(g) - 1] = "/"
                         /\ \A i \in 1..(Len(g) - 2) : g[i] # "/"}}

\* sorted(pkgs), of packages whose pyproject.toml exists
SortedPkgs(pkgs) == SelectSeq(ListPackages, LAMBDA n : n \in pkgs)

\* a comparison that lets every pair of versions pass
VersionsAgreeAlways(init_version, version) == TRUE

\* tag_on_merge.py:104, init_version != version
VersionsAgree(init_version, version) == init_version = version

\* the pass ends, and is remembered as the last reconcile pass
RecFinish(r) ==
    /\ Finish(r)
    /\ prev' = [before |-> did.before, after |-> did.after, result |-> r,
                files |-> files]

\* tag_on_merge.py:72-92, the diff of the revision pair and the changed descriptors
StartReconcile ==
    /\ StartPass("tag_on_merge", "rec")
    /\ \E b \in 1..HEAD : \E a \in b..HEAD :
        LET changed == IF b # a THEN DiffNames(b, a) ELSE {} IN
        \* the push that triggered the workflow, or the last pair once more
        /\ a = HEAD \/ (b = prev.before /\ a = prev.after)
        /\ recPkgs' = SortedPkgs(DescriptorPkgs(changed))
        /\ did' = [NothingDone EXCEPT
                     !.before = b, !.after = a,
                     !.rerun = /\ prev.result = "ok"
                               /\ prev.before = b /\ prev.after = a
                               /\ prev.files = files]
    /\ UNCHANGED <<planned, prev, nDev, repoVars, Others>>

\* tag_on_merge.py:94-116, one package of the loop
ReconcilePackage ==
    /\ pass = "tag_on_merge" /\ pc = "rec" /\ idx <= Len(recPkgs)
    /\ LET name == recPkgs[idx]
           version == ReadVersion(files[name].py)
           init == files[name].init
           init_version == ReadVersion(init.lines)
           seen == [did EXCEPT !.visited = Append(@, name)]
       IN
        IF ~version.ok \/ (init.exists /\ ~init_version.ok)
        THEN /\ RecFinish("ValueError")
             /\ did' = seen
             /\ UNCHANGED <<idx, tags, remoteTags>>
        ELSE IF init.exists /\ ~VersionsAgree(init_version.val, version.val)
        THEN /\ RecFinish("VersionMismatch")
             /\ did' = seen
             /\ UNCHANGED <<idx, tags, remoteTags>>
        ELSE IF TagExists(TagName(name, version.val))
        THEN /\ idx' = idx + 1
             /\ did' = seen
             /\ UNCHANGED <<pc, result, prev, tags, remoteTags>>
        ELSE LET tag == TagName(name, version.val)
                 made == [name |-> tag, target |-> HEAD, by |-> "tag_on_merge"] IN
             IF ~GitTagCreates(tag)
             THEN /\ RecFinish("CalledProcessError")
                  /\ did' = seen
                  /\ UNCHANGED <<idx, tags, remoteTags>>
             ELSE \/ /\ RecFinish("CalledProcessError")
                     /\ did' = seen
                     /\ UNCHANGED <<idx, tags, remoteTags>>
                  \/ /\ tags' = Append(tags, made)
                     /\ did' = [seen EXCEPT !.tagsCreated = Append(@, tag)]
                     /\ RecFinish("CalledProcessError")
                     /\ UNCHANGED <<idx, remoteTags>>
                  \/ /\ tags' = Append(tags, made)
                     /\ remoteTags' = remoteTags \cup {tag}
                     /\ did' = [seen EXCEPT !.tagsCreated = Append(@, tag),
                                            !.tagsPushed = @ \cup {tag}]
                     /\ idx' = idx + 1
                     /\ UNCHANGED <<pc, result, prev>>
    /\ UNCHANGED <<pass, planned, recPkgs, snap, nRuns, nDev, Others>>
    /\ UNCHANGED <<history, remoteHead, files, staged, releases>>

\* tag_on_merge.py:90-92 and 118, return 0
ReconcileReturn ==
    /\ pass = "tag_on_merge" /\ pc = "rec" /\ idx > Len(recPkgs)
    /\ RecFinish("ok")
    /\ UNCHANGED <<pass, idx, planned, recPkgs, did, snap, nRuns, nDev, repoVars, Others>>

----------------------------------------------------------------------------
(* Publish pass: release.py cmd_create_releases *)

\* release.py:283-289
StartPublish ==
    /\ StartPass("create_releases", "publish")
    /\ did' = NothingDone
    /\ UNCHANGED <<planned, recPkgs, prev, nDev, repoVars, Others>>

\* gh release view: exit status 0 when the tag has a release record
ReleaseView(tag) == tag \in Range(releases)

\* a loop that asks for a release without looking for the record first
PublishPackageNoView ==
    /\ pass = "create_releases" /\ pc = "publish" /\ idx <= Len(ListPackages)
    /\ LET tag == LatestTagFor(ListPackages[idx]) IN
        IF tag = NoTag
        THEN idx' = idx + 1 /\ UNCHANGED <<pc, result, releases, did>>
        ELSE /\ did' = [did EXCEPT !.requests =
                            Append(@, [tag |-> tag, had |-> ReleaseView(tag)])]
             /\ \/ /\ releases' = Append(releases, tag)
                   /\ idx' = idx + 1
                   /\ UNCHANGED <<pc, result>>
                \/ /\ Finish("CalledProcessError")
                   /\ UNCHANGED <<idx, releases>>
    /\ UNCHANGED <<pass, planned, recPkgs, snap, prev, nRuns, nDev, Others>>
    /\ UNCHANGED <<history, remoteHead, tags, remoteTags, files, staged>>

\* release.py:290-314, one package of the loop: no tag, or a record that gh
\* release view finds, skips the package; otherwise gh release create is run,
\* and its failure is the uncaught CalledProcessError of run
PublishPackage ==
    /\ pass = "create_releases" /\ pc = "publish" /\ idx <= Len(ListPackages)
    /\ LET tag == LatestTagFor(ListPackages[idx]) IN
        IF tag = NoTag \/ ReleaseView(tag)
        THEN idx' = idx + 1 /\ UNCHANGED <<pc, result, releases, did>>
        ELSE /\ did' = [did EXCEPT !.requests =
                            Append(@, [tag |-> tag, had |-> ReleaseView(tag)])]
             /\ \/ /\ releases' = Append(releases, tag)
                   /\ idx' = idx + 1
                   /\ UNCHANGED <<pc, result>>
                \/ /\ Finish("CalledProcessError")
                   /\ UNCHANGED <<idx, releases>>
    /\ UNCHANGED <<pass, planned, recPkgs, snap, prev, nRuns, nDev, Others>>
    /\ UNCHANGED <<history, remoteHead, tags, remoteTags, files, staged>>

\* release.py:316, return 0
PublishReturn ==
    /\ pass = "create_releases" /\ pc = "publish" /\ idx > Len(ListPackages)
    /\ Finish("ok")
    /\ UNCHANGED <<pass, idx, planned, recPkgs, did, snap, prev, nRuns, nDev, repoVars, Others>>

----------------------------------------------------------------------------

Next ==
    \/ DevCommit
    \/ StartTagMain
    \/ PlanPackage
    \/ PlanDone
    \/ ApplyPackage
    \/ CommitRelease
    \/ PushCommit
    \/ TagPackage
    \/ TagMainReturn
    \/ StartReconcile
    \/ ReconcilePackage
    \/ ReconcileReturn
    \/ StartPublish
    \/ PublishPackage
    \/ PublishReturn

Spec == Init /\ [][Next]_vars

----------------------------------------------------------------------------
(* Properties of the passes *)


PlannedTag(i) == TagName(planned[i].pkg, planned[i].next_v)

\* C4: a reconcile pass on the revision pair of the previous reconcile pass,
\* which ended successfully and since which no version file changed, creates
\* no tag, pushes nothing, and ends successfully.
C4_ReconcileIdempotent ==
    (pass = "tag_on_merge" /\ did.rerun) =>
        /\ did.tagsCreated = <<>>
        /\ did.tagsPushed = {}
        /\ pc = "done" => result = "ok"

\* the second pass over a pair whose first pass tagged both packages
C4_Witness ==
    /\ pass = "tag_on_merge" /\ did.rerun /\ pc = "done"
    /\ recPkgs = ListPackages
    /\ did.visited = ListPackages
    /\ \A n \in PkgNames : \E i \in 1..Len(tags) :
          tags[i].by = "tag_on_merge" /\ tags[i].name = TagName(n, files[n].py[1])

\* the descriptor and __init__.py of a package both declare a version, and the
\* two differ
Mismatch(name) ==
    LET f == files[name] IN
    /\ f.init.exists /\ Len(f.py) > 0 /\ Len(f.init.lines) > 0
    /\ f.init.lines[1] # f.py[1]

\* C5: in a reconcile pass over a changed package whose __init__.py version
\* differs from its descriptor's, the pass fails (with the version-mismatch
\* error once it reaches the package), no tag of that package is created or
\* pushed, and no version file is modified.
C5_MismatchFailsClosed ==
    pass = "tag_on_merge" =>
        /\ files = snap.files
        /\ \A n \in Range(recPkgs) : Mismatch(n) =>
              /\ TagName(n, files[n].py[1]) \notin Range(did.tagsCreated)
              /\ TagName(n, files[n].py[1]) \notin did.tagsPushed
              /\ pc = "done" => result # "ok"
              /\ (pc = "done" /\ n \in Range(did.visited)) => result = "VersionMismatch"

\* descriptor 1.2.0, __init__.py 1.1.9: the pass ended with the mismatch error
C5_Witness ==
    /\ pass = "tag_on_merge" /\ pc = "done" /\ result = "VersionMismatch"
    /\ PkgA \in Range(did.visited)
    /\ files[PkgA].py = <<V120>> /\ files[PkgA].init.lines = <<V119>>
    /\ did.tagsCreated = <<>>

\* C6: in the plan-and-tag pass a tag is created or pushed only after the one
\* release commit was created and pushed, so every tag the pass made points
\* at a commit origin/main holds.
C6_TagsAfterPush ==
    /\ pass = "tag_main" =>
          ((did.tagsCreated # <<>> \/ did.tagsPushed # {}) =>
              (did.commits = 1 /\ did.pushed))
    /\ \A i \in 1..Len(tags) : tags[i].by = "tag_main" => tags[i].target <= remoteHead

\* two packages released in one pass: both tags made after the push
C6_Witness ==
    /\ pass = "tag_main" /\ pc = "done" /\ result = "ok"
    /\ did.pushed /\ Len(did.tagsCreated) = 2
    /\ \A i \in 1..Len(tags) : tags[i].by = "tag_main" => tags[i].target = remoteHead

\* C7: a plan-and-tag pass never makes more than one commit; one that ends
\* successfully with k >= 1 planned packages made exactly one commit holding
\* the version files of all k, and exactly k tags, one per package, with
\* pairwise distinct names; one with nothing planned made no commit, no tag
\* and no push, and wrote nothing.
C7_OneCommitKTags ==
    pass = "tag_main" =>
        /\ did.commits <= 1
        /\ (pc = "done" /\ result = "ok") =>
              IF planned = <<>>
              THEN did = NothingDone /\ files = snap.files /\ staged = snap.staged
              ELSE /\ did.commits = 1
                   /\ \A i \in 1..Len(planned) :
                         VersionPaths(planned[i].pkg) \subseteq did.commitPaths
                   /\ Len(did.tagsCreated) = Len(planned)
                   /\ \A i \in 1..Len(planned) : did.tagsCreated[i] = PlannedTag(i)
                   /\ \A i, j \in 1..Len(planned) :
                         i # j => did.tagsCreated[i] # did.tagsCreated[j]
                   /\ did.tagsPushed = Range(did.tagsCreated)

\* two packages, one commit with the three version files, two tags
C7_Witness ==
    /\ pass = "tag_main" /\ pc = "done" /\ result = "ok"
    /\ Len(planned) = 2
    /\ did.commits = 1
    /\ Cardinality(did.commitPaths) = 3
    /\ Cardinality(Range(did.tagsCreated)) = 2

NoMutationYet ==
    /\ files = snap.files /\ staged = snap.staged
    /\ did.commits = 0 /\ ~did.pushed
    /\ did.tagsCreated = <<>> /\ did.tagsPushed = {}

\* C8: while the plan-and-tag pass is planning, nothing has been written,
\* staged, committed, pushed or tagged; and a pass whose planning failed for a
\* package ended with an error having done none of these.
C8_PlanBeforeMutation ==
    pass = "tag_main" =>
        /\ pc = "plan" => NoMutationYet
        /\ (pc = "done" /\ did.planError) => (result = "ValueError" /\ NoMutationYet)

\* the first package was planned, the second one's descriptor could not be
\* planned
C8_Witness ==
    /\ pass = "tag_main" /\ pc = "done" /\ did.planError
    /\ Len(planned) = 1 /\ planned[1].pkg = PkgA
    /\ idx = 2
    /\ files[PkgB].py = <<V1x>>

\* C9: in every step of every pass, finished or aborted, the tags that exist
\* stay, with their names and targets, no tag name exists twice, and the tags
\* on origin stay.
C9_TagsOnlyGrow ==
    [][ /\ Len(tags') >= Len(tags)
        /\ \A i \in 1..Len(tags) :
              tags'[i].name = tags[i].name /\ tags'[i].target = tags[i].target
        /\ \A i, j \in 1..Len(tags') : i # j => tags'[i].name # tags'[j].name
        /\ remoteTags \subseteq remoteTags' ]_vars

\* a plan-and-tag pass planned a tag name that exists: the pass aborted at
\* git tag and the existing tag still points at its commit
C9_Witness ==
    /\ pass = "tag_main" /\ pc = "done" /\ result = "CalledProcessError"
    /\ did.pushed /\ did.tagsCreated = <<>>
    /\ \E i \in 1..Len(tags) :
          /\ tags[i].name = PlannedTag(1)
          /\ tags[i].by = "init" /\ tags[i].target = 1
    /\ HEAD > 1

\* C10: every package the planning loop found changed is planned, with a bump
\* of at least patch and a next version that differs from the descriptor's;
\* when the pass ends successfully each planned package has its tag.
C10_ChangedIsReleased ==
    pass = "tag_main" =>
        /\ \A i \in 1..Len(planned) : planned[i].bump \in {"patch", "minor", "major"}
        /\ pc = "plan" =>
              /\ \A k \in 1..(idx - 1) :
                    PackageChanged(ListPackages[k], LatestTagFor(ListPackages[k])) =>
                        \E i \in 1..Len(planned) : planned[i].pkg = ListPackages[k]
              /\ \A i \in 1..Len(planned) :
                    planned[i].next_v # ReadVersion(files[planned[i].pkg].py).val
        /\ (pc = "done" /\ result = "ok") =>
              \A i \in 1..Len(planned) : PlannedTag(i) \in Range(did.tagsCreated)

\* PkgB has no conventional commit at all: forced patch 1.2.0 -> 1.2.1, tagged
C10_Witness ==
    /\ pass = "tag_main" /\ pc = "done" /\ result = "ok"
    /\ \E i \in 1..Len(planned) :
          /\ planned[i].pkg = PkgB /\ planned[i].bump = "patch"
          /\ planned[i].next_v = <<"1", ".", "2", ".", "1">>
          /\ TagName(PkgB, <<"1", ".", "2", ".", "1">>) \in Range(did.tagsCreated)
    /\ \A k \in 1..HEAD - 1 :
          ConventionalBumpFromCommits(<<history[k]>>, PkgB) = "none"


C11_WitnessFull ==
    /\ pass = "tag_main" /\ pc = "done" /\ result = "ok"
    /\ snap.released = PkgNames
    /\ planned = <<>> /\ did.commits = 0 /\ did.tagsCreated = <<>>


\* the release requests of the running publish pass: each names a tag of the
\* repository and was issued when the host held no record of that tag; the host
\* holds at most one record of a tag
C12_RequestsOnlyMissing ==
    /\ pass = "create_releases" =>
          \A i \in 1..Len(did.requests) :
              /\ did.requests[i].tag \in TagNames
              /\ ~did.requests[i].had
    /\ \A i, j \in 1..Len(releases) : releases[i] = releases[j] => i = j

\* a step of the publish pass leaves the commits, the tags, the working tree and
\* the index as they are
C12_PublishKeepsRepository ==
    [][pass = "create_releases" /\ pc = "publish"
          => UNCHANGED <<history, remoteHead, tags, remoteTags, files, staged>>]_vars

\* C12: the publish pass asks the host for a release only for a package that has
\* a tag and whose tag the host reports no record of; a package without a tag and
\* a tag with a record get no request, so that the host never holds two records
\* of one tag; the pass creates no commit and no tag.
C12_PublishOnlyMissing == []C12_RequestsOnlyMissing /\ C12_PublishKeepsRepository

\* a publish pass that found a record for every tag, after an earlier pass
\* created the records, and returned without a request
C12_Witness ==
    /\ pass = "create_releases" /\ pc = "done" /\ result = "ok"
    /\ did.requests = <<>>
    /\ Len(releases) = 2


\* C13: a publish pass that has ended has asked the host for a release of every
\* package whose tag has no record: the failure of one package's request does not
\* keep the pass from the packages after it.
C13_PublishContinues ==
    (pass = "create_releases" /\ pc = "done") =>
        \A n \in PkgNames :
            LET tag == LatestTagFor(n) IN
            (tag # NoTag /\ ~ReleaseView(tag)) =>
                \E i \in 1..Len(did.requests) : did.requests[i].tag = tag


----------------------------------------------------------------------------
(* Properties of the classification, continued (SpecClassify) *)

\* the subjects of ScanMsgs that start with fix or with perf, told by hand
ScanFixPerfSubjects ==
    { <<"f", "i", "x", ":", " ", "y">>,
      <<"p", "e", "r", "f", ":", " ", "z">>,
      <<"f", "i", "x", "(", "a", ")", "!", ":", " ", "z">> }

RangeHasFixOrPerf ==
    \E i \in 1..Len(clCommits) :
        /\ clCommits[i].touched \in ScanTouchedA
        /\ clCommits[i].subject \in ScanFixPerfSubjects

\* C14: a range with no breaking marker and no feat subject on a commit that
\* touches the package is classified patch when one of those commits has a
\* subject starting with fix or with perf, and none otherwise, by release.py and
\* by bump_level.py alike.
C14_PatchIffFixOrPerf ==
    (ScanDone /\ ~RangeHasBreaking /\ ~RangeHasFeat) =>
        clResult = IF RangeHasFixOrPerf THEN "patch" ELSE "none"

\* the same statement for bump_level.py alone
C14_BumpLevelPatchIffFixOrPerf ==
    clTool = "bump_level" => C14_PatchIffFixOrPerf

Touching(c) == c.touched \in ScanTouchedA

\* C16: the result of a scan is the result of the scan of the commits that touch
\* the package, in their order: a commit that touches no path under the package,
\* breaking or feat as it may be, has no part in the bump, for release.py and for
\* bump_level.py.
C16_OnlyTouchingCommitsCount ==
    ScanDone =>
        clResult = IF clTool = "release"
                   THEN ConventionalBumpFromCommits(SelectSeq(clCommits, Touching), PkgA)
                   ELSE BumpLevelScanFrom(SelectSeq(clCommits, Touching), 1, "none", PkgA)

\* a breaking commit and a feat commit outside the package around a fix inside
\* it: the range is classified patch
C16_Witness ==
    /\ ScanDone /\ clResult = "patch"
    /\ Len(clCommits) = 3
    /\ clCommits[1].subject = <<"f", "e", "a", "t", "!", ":", " ", "z">> /\ ~Touching(clCommits[1])
    /\ clCommits[2].subject = <<"f", "i", "x", ":", " ", "y">> /\ Touching(clCommits[2])
    /\ clCommits[3].subject = <<"f", "e", "a", "t", ":", " ", "x">> /\ ~Touching(clCommits[3])


----------------------------------------------------------------------------
(* SpecChanged: package_changed asked once about a history and a reference tag *)

\* a file at the top level whose name starts with a package's name
TopLevelFile == <<"f", "s", ".txt">>

ChPaths == {README, TopLevelFile, PathIn(PkgA, <<"a.py">>), PathIn(PkgB, <<"a.py">>)}

\* the paths of ChPaths below each package directory, told by hand
ChUnder(name) ==
    IF name = PkgA THEN {PathIn(PkgA, <<"a.py">>)} ELSE {PathIn(PkgB, <<"a.py">>)}

ChCommits ==
    {[subject |-> <<"c">>, body |-> <<>>, touched |-> t] : t \in SUBSET ChPaths}

InitChanged ==
    /\ history \in UNION {[1..n -> ChCommits] : n \in 1..MaxHist}
    /\ tags \in {<<>>} \cup {<<[name |-> TagName(PkgA, V010), target |-> k, by |-> "init"]>> :
                               k \in 1..Len(history)}
    /\ chPkg \in PkgNames
    /\ chRef = IF tags = <<>> THEN NoTag ELSE tags[1].name
    /\ chPc = "call"
    /\ chOut = FALSE
    /\ remoteHead = 0 /\ remoteTags = {} /\ files = <<>> /\ staged = {} /\ releases = <<>>
    /\ pass = "off" /\ pc = "off" /\ idx = 0 /\ planned = <<>> /\ recPkgs = <<>>
    /\ result = "off" /\ did = <<>> /\ snap = <<>> /\ prev = <<>>
    /\ nRuns = 0 /\ nDev = 0
    /\ BumpIdle /\ ClassifyIdle /\ WriteIdle

\* release.py:91-96
CallPackageChanged ==
    /\ chPc = "call"
    /\ chOut' = PackageChanged(chPkg, chRef)
    /\ chPc' = "returned"
    /\ UNCHANGED <<chPkg, chRef>>
    /\ UNCHANGED <<bumpVars, classifyVars, repoVars, passVars, writeVars>>

NextChanged == CallPackageChanged

SpecChanged == InitChanged /\ [][NextChanged]_vars

\* the commits package_changed looks at: all of them without a reference tag,
\* those after the tag's commit with one
ChRange == IF chRef = NoTag THEN 1..HEAD ELSE (tags[1].target + 1)..HEAD

\* C15: without a reference tag the package has changed exactly when a tracked
\* path lies under "<package>/"; with a reference tag, exactly when a path that
\* differs between the tag and HEAD lies under "<package>/". The answer is FALSE,
\* not an error, when no such path exists, and a path under another directory
\* whose name starts with the package's name does not count.
C15_ChangedIffPathUnderPackage ==
    chPc = "returned" =>
        (chOut <=> \E k \in ChRange : history[k].touched \cap ChUnder(chPkg) # {})

\* fs asked about a tag after which only fs-v2/a.py and fs.txt changed: FALSE
C15_Witness ==
    /\ chPc = "returned" /\ chPkg = PkgA /\ chRef # NoTag
    /\ HEAD = 2 /\ tags[1].target = 1
    /\ history[2].touched = {PathIn(PkgB, <<"a.py">>), TopLevelFile}
    /\ chOut = FALSE

\* fs asked about a tag on HEAD: nothing differs, FALSE
C15_WitnessNoChange ==
    /\ chPc = "returned" /\ chRef # NoTag /\ tags[1].target = HEAD
    /\ PathIn(chPkg, <<"a.py">>) \in history[1].touched
    /\ chOut = FALSE

----------------------------------------------------------------------------
(* SpecWrite: one call of write_pyproject_version or write_init_version *)

WrVersions == {V010, V011, V120, V119}

InitWrite ==
    /\ wrKind \in {"pyproject", "init"}
    /\ wrFile \in UNION {[1..n -> WrVersions] : n \in 0..MaxLines}
    /\ wrOld = wrFile
    /\ wrNew \in WrVersions
    /\ wrPc = "call"
    /\ wrErr = "none"
    /\ BumpIdle /\ ClassifyIdle /\ RepoIdle /\ ChangedIdle

\* the body of both writers: the file is written only after the count check
WriteStep ==
    LET w == WriteVersion(wrFile, wrNew) IN
    /\ wrFile' = IF w.ok THEN w.val ELSE wrFile
    /\ wrErr' = IF w.ok THEN "none" ELSE "ValueError"
    /\ wrPc' = "returned"
    /\ UNCHANGED <<wrKind, wrOld, wrNew>>
    /\ UNCHANGED <<bumpVars, classifyVars, repoVars, passVars, changedVars>>

\* release.py:182-192
CallWritePyprojectVersion == wrPc = "call" /\ wrKind = "pyproject" /\ WriteStep

\* release.py:208-218
CallWriteInitVersion == wrPc = "call" /\ wrKind = "init" /\ WriteStep

NextWrite ==
    \/ CallWritePyprojectVersion
    \/ CallWriteInitVersion

SpecWrite == InitWrite /\ [][NextWrite]_vars

\* C20: a version writer replaces the version when exactly one line of the file
\* matches its pattern; with no matching line or with more than one it raises
\* and the file keeps the content it had.
C20_WriteExactlyOne ==
    wrPc = "returned" =>
        IF Len(wrOld) = 1
        THEN wrErr = "none" /\ wrFile = <<wrNew>>
        ELSE wrErr = "ValueError" /\ wrFile = wrOld

\* write_init_version on a file with two matching lines and another version
C20_Witness ==
    /\ wrPc = "returned" /\ wrKind = "init"
    /\ Len(wrOld) = 2 /\ wrNew \notin Range(wrOld)
    /\ wrErr = "ValueError" /\ wrFile = wrOld


----------------------------------------------------------------------------
(* SpecFaults: the passes of Spec on more working trees, and with a git tag
   --list that may exit non-zero inside latest_tag_for *)

FaultFixtures ==
    Fixtures \cup
    { \* __init__.py of PkgA holds two __version__ lines, both the descriptor's version
      [files |-> TreeOf(PkgFiles(<<V010>>, InitFile(<<V010, V010>>)), PkgFiles(<<V120>>, NoInit)),
       tags |-> <<>>] }

InitFaults == InitOn(FaultFixtures)

\* release.py:67-74 inside release.py:239: git tag --list exits non-zero, the
\* except clause of latest_tag_for returns None and the planning loop goes on
PlanPackageTagListFails ==
    /\ pass = "tag_main" /\ pc = "plan" /\ idx <= Len(ListPackages)
    /\ LET p == PlanWith(ListPackages[idx], NoTag) IN
        IF p.kind = "error"
        THEN /\ Finish("ValueError")
             /\ did' = [did EXCEPT !.planError = TRUE, !.tagListFailed = TRUE]
             /\ UNCHANGED <<idx, planned>>
        ELSE /\ idx' = idx + 1
             /\ planned' = IF p.kind = "plan" THEN Append(planned, p.entry) ELSE planned
             /\ did' = [did EXCEPT !.tagListFailed = TRUE]
             /\ UNCHANGED <<pc, result>>
    /\ UNCHANGED <<pass, recPkgs, snap, prev, nRuns, nDev, repoVars, Others>>

\* release.py:67-74 inside release.py:291-293: git tag --list exits non-zero,
\* latest_tag_for returns None and the publish loop skips the package
PublishPackageTagListFails ==
    /\ pass = "create_releases" /\ pc = "publish" /\ idx <= Len(ListPackages)
    /\ idx' = idx + 1
    /\ did' = [did EXCEPT !.tagListFailed = TRUE]
    /\ UNCHANGED <<pc, result>>
    /\ UNCHANGED <<pass, planned, recPkgs, snap, prev, nRuns, nDev, repoVars, Others>>

NextFaults ==
    \/ Next
    \/ PlanPackageTagListFails
    \/ PublishPackageTagListFails

SpecFaults == InitFaults /\ [][NextFaults]_vars

\* C17: a pass in which a git command exited non-zero has ended, with the error
\* of that command: the failure of git tag --list is not taken for "no prior
\* tag", and the pass does nothing after it.
C17_FailureIsFatal ==
    (pass \in {"tag_main", "create_releases"} /\ did.tagListFailed) =>
        (pc = "done" /\ result = "CalledProcessError")

\* the version the descriptor and __init__.py of a package agree on, if they do
AgreedVersion(f) ==
    LET d == ReadVersion(f.py)
        i == ReadVersion(f.init.lines) IN
    IF d.ok /\ i.ok /\ d.val = i.val THEN Ok(d.val) ELSE Err("differ")

\* C19: when a plan-and-tag run has ended, by return or by exception, a package
\* with an __init__.py version whose two files agreed when the run started has
\* two files that agree; after a return of 0 a planned package's files both hold
\* the planned version.
C19_VersionFilesAgree ==
    (pass = "tag_main" /\ pc = "done") =>
        \A n \in PkgNames :
            (snap.files[n].init.exists /\ AgreedVersion(snap.files[n]).ok) =>
                /\ AgreedVersion(files[n]).ok
                /\ result = "ok" =>
                     \A i \in 1..Len(planned) :
                         planned[i].pkg = n => AgreedVersion(files[n]) = Ok(planned[i].next_v)

\* C18: every tag a pass created is the prefix of a package followed by
\* X.Y.Z with X, Y and Z decimal numerals: a descriptor without a version, or
\* with a version of another shape, gets no tag.
C18_TagsAreSemver ==
    \A i \in 1..Len(tags) :
        tags[i].by # "init" =>
            \E n \in PkgNames :
                /\ StartsWith(tags[i].name, TagPrefix(n))
                /\ SemverBody(SubSeq(tags[i].name, Len(TagPrefix(n)) + 1, Len(tags[i].name)))


----------------------------------------------------------------------------
(* Properties of the release points *)

\* C21: a plan-and-tag run that returns 0, started on the pushed release commit
\* of a run that failed before it created a planned tag, has created that tag:
\* the version the earlier run committed for the package has its tag.
C21_CommittedVersionTagged ==
    (pass = "tag_main" /\ pc = "done" /\ result = "ok") =>
        snap.untagged \subseteq TagNames

\* the package a tag was created for: the one whose prefix the name starts
\* with, the longest such prefix when several do (no version starts with "2-v")
CreatedFor(tag, n) ==
    /\ StartsWith(tag, TagPrefix(n))
    /\ \A q \in PkgNames :
          StartsWith(tag, TagPrefix(q)) => Len(TagPrefix(q)) <= Len(TagPrefix(n))

\* C22: the tag latest_tag_for selects for a package was created for that
\* package, never for another one, so that the package's change detection,
\* classification and publishing start from its own release point.
C22_LatestTagIsOwn ==
    \A n \in PkgNames :
        LatestTagFor(n) # NoTag => CreatedFor(LatestTagFor(n), n)

====
